---- MODULE Spec2Model ----
(***************************************************************************)
(* Model of pages/2_Company_Business_Plan.py: the Streamlit page that      *)
(* selects a hotel company and runs the insurance business-plan model.     *)
(*                                                                         *)
(* Numbers.  The page computes with Python floats.  The model computes    *)
(* with exact reals of the field Q(sqrt 3): a number is a record           *)
(* [a, b, d] standing for (a + b*sqrt(3)) / d, kept in lowest terms with   *)
(* d > 0, so that two numbers are equal iff their records are equal.       *)
(* sqrt(3) is needed because math.cos of a multiple of 30 degrees is 0,    *)
(* +-1/2, +-1 or +-sqrt(3)/2.  float("nan") is the record with d = 0.     *)
(* Rounding error of the floats is not modelled.                           *)
(***************************************************************************)
EXTENDS Integers, Sequences, FiniteSets, TLC

VARIABLES
    \* st.session_state and the cached datasets
    profile, bp_zone_ui, bp_company, csv,
    \* how the last run of the script ended, and what its selectboxes returned
    status, zone_ui, companies, remembered_company, default_company, company,
    \* the sidebar's widgets
    rooms, occupancy, avg_stay, insurance_price, take_rate, claim_rate,
    avg_claim_cost, horizon_years, growth, seasonality_amp, peak_month,
    \* the core model's point estimate
    hotel_rev_year_eur, room_nights_sold, adr, stays, policies, gross_ins_rev,
    claims, net_ins_rev, loss_ratio, loss_ratio_text,
    \* the projection
    weights, df_month, df_year

sessionVars == <<profile, bp_zone_ui, bp_company, csv>>

pageVars ==
    <<status, zone_ui, companies, remembered_company, default_company, company>>

\* what a run leaves of the company selection besides its status
selectionVars ==
    <<zone_ui, companies, remembered_company, default_company, company>>

widgetVars ==
    <<rooms, occupancy, avg_stay, insurance_price, take_rate, claim_rate,
      avg_claim_cost, horizon_years, growth, seasonality_amp, peak_month>>

pointVars ==
    <<hotel_rev_year_eur, room_nights_sold, adr, stays, policies, gross_ins_rev,
      claims, net_ins_rev, loss_ratio, loss_ratio_text>>

tableVars == <<weights, df_month, df_year>>

vars == <<sessionVars, pageVars, widgetVars, pointVars, tableVars>>

(***************************************************************************)
(* Exact arithmetic                                                        *)
(***************************************************************************)
Abs(n) == IF n < 0 THEN -n ELSE n

RECURSIVE GCD(_, _)
GCD(m, n) == IF n = 0 THEN m ELSE GCD(n, m % n)

GCD3(a, b, d) == GCD(GCD(Abs(a), Abs(b)), Abs(d))

\* float("nan")
NaN == [a |-> 0, b |-> 0, d |-> 0]

IsNaN(x) == x.d = 0

\* the value of an expression whose evaluation raised ZeroDivisionError
Raised == [a |-> 0, b |-> 0, d |-> -1]

IsRaised(x) == x.d = -1

\* a name the script has not assigned (the run stopped before its line)
Unset == [a |-> 0, b |-> 0, d |-> -2]

\* what an operation on x and y yields without computing: an exception that
\* was raised stays raised, and nan propagates
Special(x, y) == IF IsRaised(x) \/ IsRaised(y) THEN Raised ELSE NaN

IsNum(x) == x.d > 0

\* (a + b*sqrt 3) / d in lowest terms, d # 0
Norm(a, b, d) ==
    LET g == GCD3(a, b, d)
        s == IF d < 0 THEN -1 ELSE 1
    IN  [a |-> s * (a \div g), b |-> s * (b \div g), d |-> s * (d \div g)]

\* the rational n / d
Q(n, d) == Norm(n, 0, d)

Zero == Q(0, 1)

One == Q(1, 1)

Add(x, y) ==
    IF ~IsNum(x) \/ ~IsNum(y) THEN Special(x, y)
    ELSE LET g == GCD(x.d, y.d)
             fx == y.d \div g
             fy == x.d \div g
         IN  Norm(x.a * fx + y.a * fy, x.b * fx + y.b * fy, x.d * fx)

Neg(x) == IF ~IsNum(x) THEN x ELSE [a |-> -x.a, b |-> -x.b, d |-> x.d]

Sub(x, y) == Add(x, Neg(y))

\* numerators and denominators are cross-reduced before they are multiplied
Mul(x, y) ==
    IF ~IsNum(x) \/ ~IsNum(y) THEN Special(x, y)
    ELSE LET g1 == GCD3(x.a, x.b, y.d)
             g2 == GCD3(y.a, y.b, x.d)
             xa == x.a \div g1
             xb == x.b \div g1
             yd == y.d \div g1
             ya == y.a \div g2
             yb == y.b \div g2
             xd == x.d \div g2
         IN  Norm(xa * ya + 3 * xb * yb, xa * yb + xb * ya, xd * yd)

\* 1 / x for x # 0: d*(a - b*sqrt 3) / (a^2 - 3*b^2)
Inv(x) ==
    IF x.b = 0 THEN Norm(x.d, 0, x.a)
    ELSE Mul(Q(x.d, 1), Norm(x.a, -x.b, x.a * x.a - 3 * x.b * x.b))


\* -1, 0 or 1: the sign of a + b*sqrt 3 (d > 0)
Sign(x) ==
    IF x.a >= 0 /\ x.b >= 0 THEN (IF x.a = 0 /\ x.b = 0 THEN 0 ELSE 1)
    ELSE IF x.a <= 0 /\ x.b <= 0 THEN -1
    ELSE IF x.a > 0 THEN (IF x.a * x.a > 3 * x.b * x.b THEN 1 ELSE -1)
    ELSE (IF 3 * x.b * x.b > x.a * x.a THEN 1 ELSE -1)

\* Python's x > y on floats: False when either is nan
Gt(x, y) == IsNum(x) /\ IsNum(y) /\ Sign(Sub(x, y)) = 1

\* Python's x / y on floats: ZeroDivisionError when y is 0.0
Div(x, y) ==
    IF ~IsNum(x) \/ ~IsNum(y) THEN Special(x, y)
    ELSE IF Sign(y) = 0 THEN Raised
    ELSE Mul(x, Inv(y))

Max(x, y) == IF Gt(y, x) THEN y ELSE x

RECURSIVE Pow(_, _)
Pow(x, n) == IF n = 0 THEN One ELSE Mul(x, Pow(x, n - 1))

RECURSIVE SumSeq(_)
SumSeq(s) == IF s = <<>> THEN Zero ELSE Add(Head(s), SumSeq(Tail(s)))

(***************************************************************************)
(* Helpers                                                                 *)
(***************************************************************************)
\* math.cos(2 * math.pi * k / 12) for an integer k
Cos12(k) ==
    LET r == k % 12
    IN  CASE r = 0 -> Q(1, 1)
          [] r \in {1, 11} -> Norm(0, 1, 2)
          [] r \in {2, 10} -> Q(1, 2)
          [] r \in {3, 9} -> Q(0, 1)
          [] r \in {4, 8} -> Q(-1, 2)
          [] r \in {5, 7} -> Norm(0, -1, 2)
          [] r = 6 -> Q(-1, 1)

Floor == Q(5, 100)

\* SeasonVals with the cosine peaking one month late (peak_month taken as
\* the 0-based index)
SeasonValsPeakOffByOne(peak, amplitude) ==
    LET peak_idx == peak % 12
    IN  [m \in 1..12 |->
            Max(Floor, Add(One, Mul(amplitude, Cos12((m - 1) - peak_idx))))]

\* vals of _seasonality_weights: the floored cosine values before normalisation
SeasonVals(peak, amplitude) ==
    LET peak_idx == (peak - 1) % 12
    IN  [m \in 1..12 |->
            Max(Floor, Add(One, Mul(amplitude, Cos12((m - 1) - peak_idx))))]

\* _seasonality_weights returning vals as they are, not divided by their sum
SeasonalityWeightsUnnormalised(peak, amplitude) == SeasonVals(peak, amplitude)

_seasonality_weights(peak, amplitude) ==
    LET vals == SeasonVals(peak, amplitude)
        s == SumSeq(vals)
    IN  [m \in 1..12 |-> Div(vals[m], s)]

(***************************************************************************)
(* Core model (simple V1): the annual point estimate                       *)
(***************************************************************************)
RoomNightsCapacity(r) == Mul(Q(r, 1), Q(365, 1))

RoomNightsSold(r, occ) ==
    IF Gt(occ, Zero) THEN Mul(RoomNightsCapacity(r), occ) ELSE Zero

\* Adr without its guard on room_nights_sold
AdrUnguarded(rev, rns) == Div(rev, rns)

Adr(rev, rns) == IF Gt(rns, Zero) THEN Div(rev, rns) ELSE NaN

Stays(rns, avgStay) == IF Gt(avgStay, Zero) THEN Div(rns, avgStay) ELSE Zero

Policies(st, takeRate) == Mul(st, takeRate)

GrossInsRev(pol, price) == Mul(pol, price)

Claims(pol, claimRate, avgClaimCost) == Mul(Mul(pol, claimRate), avgClaimCost)

\* NetInsRev floored at zero (a loss reported as 0)
NetInsRevFloored(gross, cl) == Max(Zero, Sub(gross, cl))

NetInsRev(gross, cl) == Sub(gross, cl)

\* LossRatio reporting 0 instead of nan when there is no gross revenue
LossRatioZeroDefault(cl, gross) ==
    IF Gt(gross, Zero) THEN Div(cl, gross) ELSE Zero

LossRatio(cl, gross) == IF Gt(gross, Zero) THEN Div(cl, gross) ELSE NaN

(***************************************************************************)
(* Monthly + multi-year projection tables                                  *)
(***************************************************************************)
\* MonthRow with the Stays column computed from room_nights_sold
MonthRowStaysFromNights(m, w, rev, rns, st, pol, gross, cl, net) ==
    [Month |-> m,
     Weight |-> w,
     HotelRevenue |-> Mul(rev, w),
     RoomNightsSold |-> Mul(rns, w),
     Stays |-> Mul(rns, w),
     Policies |-> Mul(pol, w),
     GrossInsuranceRevenue |-> Mul(gross, w),
     Claims |-> Mul(cl, w),
     NetInsuranceRevenue |-> Mul(net, w)]

\* one row of df_month: every annual value times the month's weight
MonthRow(m, w, rev, rns, st, pol, gross, cl, net) ==
    [Month |-> m,
     Weight |-> w,
     HotelRevenue |-> Mul(rev, w),
     RoomNightsSold |-> Mul(rns, w),
     Stays |-> Mul(st, w),
     Policies |-> Mul(pol, w),
     GrossInsuranceRevenue |-> Mul(gross, w),
     Claims |-> Mul(cl, w),
     NetInsuranceRevenue |-> Mul(net, w)]

DfMonth(w, rev, rns, st, pol, gross, cl, net) ==
    [m \in 1..12 |-> MonthRow(m, w[m], rev, rns, st, pol, gross, cl, net)]

\* YearRevenue compounding y times instead of y - 1
YearRevenueOffByOne(rev, g, y) == Mul(rev, Pow(Add(One, g), y))

\* df_year["HotelRevenue"] of year y
YearRevenue(rev, g, y) == Mul(rev, Pow(Add(One, g), y - 1))

\* rev_scale of year y: a pandas division (no exception), guarded by the code
RevScale(rev, g, y) ==
    IF Gt(rev, Zero) THEN Div(YearRevenue(rev, g, y), rev) ELSE Zero

\* YearPolicies compounding the attach rate with the year's scale left out:
\* the take rate applied twice
YearPoliciesRateTwice(st, attachRate) == Mul(Mul(st, attachRate), attachRate)

YearPolicies(st, attachRate) == Mul(st, attachRate)

YearRow(y, rev, g, rns, st, attachRate, price, claimRate, avgClaimCost) ==
    LET scale == RevScale(rev, g, y)
        ySt == Mul(st, scale)
        yPol == YearPolicies(ySt, attachRate)
        yGross == Mul(yPol, price)
        yCl == Mul(Mul(yPol, claimRate), avgClaimCost)
    IN  [Year |-> y,
         HotelRevenue |-> YearRevenue(rev, g, y),
         RoomNightsSold |-> Mul(rns, scale),
         Stays |-> ySt,
         Policies |-> yPol,
         GrossInsuranceRevenue |-> yGross,
         Claims |-> yCl,
         NetInsuranceRevenue |-> Sub(yGross, yCl)]

DfYear(h, rev, g, rns, st, attachRate, price, claimRate, avgClaimCost) ==
    [y \in 1..h |->
        YearRow(y, rev, g, rns, st, attachRate, price, claimRate, avgClaimCost)]

(***************************************************************************)
(* KPI header                                                              *)
(***************************************************************************)
\* round(x) of a rational x to the nearest integer, ties to even
RoundHalfEven(x) ==
    LET q == x.a \div x.d
        r == x.a % x.d
    IN  IF 2 * r < x.d THEN q
        ELSE IF 2 * r > x.d THEN q + 1
        ELSE IF q % 2 = 0 THEN q ELSE q + 1

NoText == [kind |-> "none", tenths |-> 0]

\* c4.metric("Loss ratio", ...): the percentage to one decimal, or the dash
LossRatioText(lr) ==
    IF IsNum(lr) THEN [kind |-> "pct", tenths |-> RoundHalfEven(Mul(lr, Q(1000, 1)))]
    ELSE [kind |-> "dash", tenths |-> 0]

(***************************************************************************)
(* One evaluation of the core model and of the projection tables           *)
(***************************************************************************)
\* The script stops at the first line that raises: StopSite is that line's
\* rank (1 adr, 2 stays, 3 loss_ratio, 4 weights), or 5 when none raises.
StopSite(adrV, stV, lrV, wV) ==
    IF IsRaised(adrV) THEN 1
    ELSE IF IsRaised(stV) THEN 2
    ELSE IF IsRaised(lrV) THEN 3
    ELSE IF \E m \in 1..12 : IsRaised(wV[m]) THEN 4
    ELSE 5

\* (each name is bound to its value once, in the script's order)
CoreModel(rev, w) ==
    \E rns \in {RoomNightsSold(w.rooms, w.occupancy)} :
    \E adrV \in {Adr(rev, rns)} :
    \E stV \in {Stays(rns, w.avg_stay)} :
    \E pol \in {Policies(stV, w.take_rate)} :
    \E gross \in {GrossInsRev(pol, w.insurance_price)} :
    \E cl \in {Claims(pol, w.claim_rate, w.avg_claim_cost)} :
    \E net \in {NetInsRev(gross, cl)} :
    \E lrV \in {LossRatio(cl, gross)} :
    \E wV \in {_seasonality_weights(w.peak_month, w.seasonality_amp)} :
    \E stop \in {StopSite(adrV, stV, lrV, wV)} :
        /\ hotel_rev_year_eur' = rev
        /\ room_nights_sold' = rns
        /\ adr' = IF stop > 1 THEN adrV ELSE Unset
        /\ stays' = IF stop > 2 THEN stV ELSE Unset
        /\ policies' = IF stop > 2 THEN pol ELSE Unset
        /\ gross_ins_rev' = IF stop > 2 THEN gross ELSE Unset
        /\ claims' = IF stop > 2 THEN cl ELSE Unset
        /\ net_ins_rev' = IF stop > 2 THEN net ELSE Unset
        /\ loss_ratio' = IF stop > 3 THEN lrV ELSE Unset
        /\ loss_ratio_text' = IF stop > 3 THEN LossRatioText(lrV) ELSE NoText
        /\ weights' = IF stop > 4 THEN wV ELSE <<>>
        /\ df_month' = IF stop > 4
                         THEN DfMonth(wV, rev, rns, stV, pol, gross, cl, net)
                         ELSE <<>>
        /\ df_year' = IF stop > 4
                        THEN DfYear(w.horizon_years, rev, w.growth, rns, stV,
                                    w.take_rate, w.insurance_price, w.claim_rate,
                                    w.avg_claim_cost)
                        ELSE <<>>
        /\ status' = IF stop > 4 THEN "rendered" ELSE "exception"

\* a run that stops before the core model assigns nothing of it
NoModel ==
    /\ hotel_rev_year_eur' = Unset
    /\ room_nights_sold' = Unset
    /\ adr' = Unset
    /\ stays' = Unset
    /\ policies' = Unset
    /\ gross_ins_rev' = Unset
    /\ claims' = Unset
    /\ net_ins_rev' = Unset
    /\ loss_ratio' = Unset
    /\ loss_ratio_text' = NoText
    /\ weights' = <<>>
    /\ df_month' = <<>>
    /\ df_year' = <<>>

\* the sidebar's widgets return what the user has set them to
ReadWidgets(w) ==
    /\ rooms' = w.rooms
    /\ occupancy' = w.occupancy
    /\ avg_stay' = w.avg_stay
    /\ insurance_price' = w.insurance_price
    /\ take_rate' = w.take_rate
    /\ claim_rate' = w.claim_rate
    /\ avg_claim_cost' = w.avg_claim_cost
    /\ horizon_years' = w.horizon_years
    /\ growth' = w.growth
    /\ seasonality_amp' = w.seasonality_amp
    /\ peak_month' = w.peak_month

(***************************************************************************)
(* Datasets: the CSV files of travel/hotel, one per zone                   *)
(***************************************************************************)
\* the most rows a CSV file of the model holds
MaxRows == 3

Row(name, revM) == [Name |-> name, Revenue_M |-> revM]

FranceRows ==
    <<Row("Accor", Q(50, 1)), Row("Barriere", NaN), Row("Campanile", Q(0, 1)),
      Row("Accor", Q(40, 1)), Row("Louvre", Q(3, 2))>>

EuropeRows ==
    <<Row("Scandic", NaN), Row("Melia", Q(80, 1)), Row("Accor", Q(60, 1)),
      Row("NH", Q(3, 2)), Row("Louvre", NaN)>>

\* no travel_hotel_<zone>_cleaned.csv in Data_Clean
Missing == <<Row("", Unset)>>

Files(rows) == {Missing} \cup {SubSeq(rows, 1, n) : n \in 0..MaxRows}

Catalogs == [france : Files(FranceRows), europe : Files(EuropeRows)]

zone_ui_options == <<"France", "Europe", "Europe + France">>

\* zones_in_scope_from_ui(zone_ui)
ZonesInScope(z) ==
    CASE z = "France" -> <<"france">>
      [] z = "Europe" -> <<"europe">>
      [] z = "Europe + France" -> <<"europe", "france">>

RECURSIVE Concat(_)
Concat(ss) == IF ss = <<>> THEN <<>> ELSE Head(ss) \o Concat(Tail(ss))

\* _load_panorama_for: the concatenation of the zones' files that exist
LoadPanoramaFor(cat, zones) ==
    LET paths == SelectSeq(zones, LAMBDA z : cat[z] # Missing)
    IN  IF paths = <<>> THEN <<>>
        ELSE Concat([i \in 1..Len(paths) |-> cat[paths[i]]])

\* df[df["Revenue_M"].notna()]
NotNa(df) == SelectSeq(df, LAMBDA r : ~IsNaN(r.Revenue_M))

\* the index of the first row holding the largest Revenue_M
ArgMax(df) ==
    CHOOSE i \in 1..Len(df) :
        /\ \A j \in 1..Len(df) : ~Gt(df[j].Revenue_M, df[i].Revenue_M)
        /\ \A j \in 1..(i - 1) : Gt(df[i].Revenue_M, df[j].Revenue_M)

RemoveAt(seq, i) == SubSeq(seq, 1, i - 1) \o SubSeq(seq, i + 1, Len(seq))

\* df.sort_values("Revenue_M", ascending=False)
RECURSIVE SortDesc(_)
SortDesc(df) ==
    IF df = <<>> THEN <<>>
    ELSE LET i == ArgMax(df) IN <<df[i]>> \o SortDesc(RemoveAt(df, i))

\* df["Name"].dropna().astype(str).unique().tolist()
RECURSIVE UniqueNames(_)
UniqueNames(df) ==
    IF df = <<>> THEN <<>>
    ELSE LET rest == SelectSeq(Tail(df), LAMBDA r : r.Name # Head(df).Name)
         IN  <<Head(df).Name>> \o UniqueNames(rest)

InList(x, seq) == \E i \in 1..Len(seq) : seq[i] = x

\* list.index(x), from 1; 0 stands for the ValueError of an absent x
IndexOf(seq, x) ==
    IF InList(x, seq)
    THEN CHOOSE i \in 1..Len(seq) : seq[i] = x /\ \A j \in 1..(i - 1) : seq[j] # x
    ELSE 0

\* the user's choice in a selectbox, when they made none in this run
NoPick == "NoPick"

\* st.selectbox(label, options, index): the option the user picked, or the
\* option at index when they picked none of the options
Selectbox(options, index, pick) ==
    IF InList(pick, options) THEN pick ELSE options[index]

\* df[df["Name"].astype(str) == str(company)].head(1)
RowOf(df, name) == SelectSeq(df, LAMBDA r : r.Name = name)

(***************************************************************************)
(* The sidebar's widgets: defaults, and the settings the user tries        *)
(***************************************************************************)
DefaultWidgets ==
    [rooms |-> 120, occupancy |-> Q(72, 100), avg_stay |-> Q(24, 10),
     insurance_price |-> Q(18, 1), take_rate |-> Q(18, 100),
     claim_rate |-> Q(6, 100), avg_claim_cost |-> Q(220, 1),
     horizon_years |-> 1, growth |-> Q(5, 100),
     seasonality_amp |-> Q(20, 100), peak_month |-> 7]

\* settings of the whole sidebar that the user of the page model moves to
Scenarios ==
    {DefaultWidgets,
     [DefaultWidgets EXCEPT !.horizon_years = 3],
     [DefaultWidgets EXCEPT !.take_rate = Q(0, 1), !.peak_month = 1],
     [DefaultWidgets EXCEPT !.claim_rate = Q(30, 100), !.horizon_years = 5,
                            !.growth = Q(-20, 100), !.seasonality_amp = Q(60, 100)]}

CurrentWidgets ==
    [rooms |-> rooms, occupancy |-> occupancy, avg_stay |-> avg_stay,
     insurance_price |-> insurance_price, take_rate |-> take_rate,
     claim_rate |-> claim_rate, avg_claim_cost |-> avg_claim_cost,
     horizon_years |-> horizon_years, growth |-> growth,
     seasonality_amp |-> seasonality_amp, peak_month |-> peak_month]

(***************************************************************************)
(* The page: one run of the script                                         *)
(***************************************************************************)
None == "None"

\* a run that stops before the company selectbox (st.stop())
StopBeforeCompany(st) ==
    /\ status' = st
    /\ companies' = <<>>
    /\ remembered_company' = None
    /\ default_company' = None
    /\ company' = None
    /\ UNCHANGED bp_company
    /\ NoModel

\* lines 156-158: the zone the selectbox starts on
DefaultZone(remembered) ==
    IF InList(remembered, zone_ui_options) THEN remembered ELSE "France"

\* DefaultCompany without the membership test: a remembered company is
\* kept whatever the list
DefaultCompanyKeepsRemembered(remembered, comps) ==
    IF remembered # None THEN remembered ELSE comps[1]

\* lines 221-223: the company the selectbox starts on
DefaultCompany(remembered, comps) ==
    IF InList(remembered, comps) THEN remembered ELSE comps[1]

\* lines 211-216: the rows with a revenue, largest first
CleanSort(loaded) == SortDesc(NotNa(loaded))

\* The whole script, top to bottom, with what the user did to the two
\* selectboxes (zonePick, companyPick) and the sidebar's values w.
PageRun(zonePick, companyPick, w) ==
    IF ~profile
    THEN \* st.switch_page("pages/0_Home.py")
         /\ status' = "home"
         /\ zone_ui' = None
         /\ companies' = <<>>
         /\ remembered_company' = None
         /\ default_company' = None
         /\ company' = None
         /\ NoModel
         /\ UNCHANGED <<sessionVars, widgetVars>>
    ELSE \E zui \in {Selectbox(zone_ui_options,
                                IndexOf(zone_ui_options, DefaultZone(bp_zone_ui)),
                                zonePick)} :
         \E loaded \in {LoadPanoramaFor(csv, ZonesInScope(zui))} :
         \E df \in {CleanSort(loaded)} :
         \E comps \in {UniqueNames(df)} :
             /\ zone_ui' = zui
             /\ bp_zone_ui' = zui
             /\ ReadWidgets(w)
             /\ UNCHANGED <<profile, csv>>
             /\ IF loaded = <<>> THEN StopBeforeCompany("no_dataset")
                ELSE IF comps = <<>> THEN StopBeforeCompany("no_companies")
                ELSE \E dflt \in {DefaultCompany(bp_company, comps)} :
                     \E idx \in {IndexOf(comps, dflt)} :
                         /\ companies' = comps
                         /\ remembered_company' = bp_company
                         /\ default_company' = dflt
                         /\ IF idx = 0
                            THEN \* ValueError: dflt is not in the list
                                 /\ status' = "exception"
                                 /\ company' = None
                                 /\ UNCHANGED bp_company
                                 /\ NoModel
                            ELSE \E comp \in {Selectbox(comps, idx, companyPick)} :
                                 \E row \in {RowOf(df, comp)} :
                                     /\ company' = comp
                                     /\ bp_company' = comp
                                     /\ IF row = <<>>
                                        THEN status' = "not_found" /\ NoModel
                                        ELSE CoreModel(Mul(row[1].Revenue_M,
                                                           Q(1000000, 1)), w)

\* What the user may have done to the page since its last run: a Streamlit
\* rerun carries at most one widget interaction.
Pick(z, c, w) == [zonePick |-> z, companyPick |-> c, w |-> w]

\* the page is opened or rerun without the user touching a widget
NoInteraction == {Pick(NoPick, NoPick, CurrentWidgets)}

\* the user picks a zone in the sidebar's selectbox
ZoneInteractions ==
    IF status \in {"init", "home"} THEN {}
    ELSE {Pick(zone_ui_options[i], NoPick, CurrentWidgets) :
             i \in 1..Len(zone_ui_options)}

\* the user picks a company among those the last run listed
CompanyInteractions ==
    {Pick(NoPick, companies[i], CurrentWidgets) : i \in 1..Len(companies)}

\* the user moves the sidebar's inputs
AssumptionInteractions ==
    IF status \in {"init", "home"} THEN {}
    ELSE {Pick(NoPick, NoPick, w) : w \in Scenarios \ {CurrentWidgets}}

Interactions ==
    NoInteraction \cup ZoneInteractions \cup CompanyInteractions
        \cup AssumptionInteractions

\* the script runs after the interaction i
Run(i) == PageRun(i.zonePick, i.companyPick, i.w)

\* on the home page the user selects a profile
SelectProfile ==
    /\ status = "home"
    /\ profile' = TRUE
    /\ UNCHANGED <<bp_zone_ui, bp_company, csv, pageVars, widgetVars, pointVars,
                   tableVars>>

InitOutputs ==
    /\ zone_ui = None
    /\ companies = <<>>
    /\ remembered_company = None
    /\ default_company = None
    /\ company = None
    /\ room_nights_sold = Unset
    /\ adr = Unset
    /\ stays = Unset
    /\ policies = Unset
    /\ gross_ins_rev = Unset
    /\ claims = Unset
    /\ net_ins_rev = Unset
    /\ loss_ratio = Unset
    /\ loss_ratio_text = NoText
    /\ weights = <<>>
    /\ df_month = <<>>
    /\ df_year = <<>>

InitWidgets(w) ==
    /\ rooms = w.rooms
    /\ occupancy = w.occupancy
    /\ avg_stay = w.avg_stay
    /\ insurance_price = w.insurance_price
    /\ take_rate = w.take_rate
    /\ claim_rate = w.claim_rate
    /\ avg_claim_cost = w.avg_claim_cost
    /\ horizon_years = w.horizon_years
    /\ growth = w.growth
    /\ seasonality_amp = w.seasonality_amp
    /\ peak_month = w.peak_month

Init ==
    /\ profile \in BOOLEAN
    /\ bp_zone_ui = None
    /\ bp_company = None
    /\ csv \in Catalogs
    /\ status = "init"
    /\ InitWidgets(DefaultWidgets)
    /\ hotel_rev_year_eur = Unset
    /\ InitOutputs

Next ==
    \/ \E i \in Interactions : Run(i)
    \/ SelectProfile

Spec == Init /\ [][Next]_vars

(***************************************************************************)
(* The core model as a function of its inputs                              *)
(***************************************************************************)
\* the largest whole Revenue_M (millions of EUR) of the companies tried
MaxRevenueM == 1

RevenueMChoices == {Q(k, 1) : k \in 0..MaxRevenueM} \cup {Q(50, 1)}

OccupancyChoices == {Q(10, 100), Q(72, 100)}

\* Every setting of the sidebar that the core model is evaluated on.  The
\* exact fractions must fit the model checker's 32-bit integers, which
\* (21/20)^4 over five years does not: a growth of 5% is tried up to 3 years.
ModelWidgets(occupancies) ==
    {w \in [rooms : {1, 120},
            occupancy : occupancies,
            avg_stay : {Q(2, 1), Q(24, 10)},
            insurance_price : {Q(0, 1), Q(18, 1)},
            take_rate : {Q(0, 1), Q(18, 100)},
            claim_rate : {Q(0, 1), Q(6, 100), Q(30, 100)},
            avg_claim_cost : {Q(220, 1)},
            horizon_years : {1, 3, 5},
            growth : {Q(-20, 100), Q(5, 100), Q(25, 100)},
            seasonality_amp : {Q(20, 100), Q(60, 100)},
            peak_month : {7, 12}] :
        w.growth = Q(5, 100) => w.horizon_years <= 3}

InitModel(occupancies) ==
    /\ profile = TRUE
    /\ bp_zone_ui = None
    /\ bp_company = None
    /\ csv = [france |-> Missing, europe |-> Missing]
    /\ status = "init"
    /\ \E w \in ModelWidgets(occupancies) : InitWidgets(w)
    /\ \E r \in RevenueMChoices : hotel_rev_year_eur = Mul(r, Q(1000000, 1))
    /\ InitOutputs

\* lines 262-335 of the script on the inputs drawn
EvaluateCoreModel ==
    /\ status = "init"
    /\ CoreModel(hotel_rev_year_eur, CurrentWidgets)
    /\ UNCHANGED <<sessionVars, selectionVars, widgetVars>>

SpecModel == InitModel(OccupancyChoices) /\ [][EvaluateCoreModel]_vars

\* The core model's contract also covers an occupancy of 0, which the
\* sidebar's slider (min_value=0.10) never returns.
ContractOccupancies == {Q(0, 1), Q(72, 100)}

SpecGuard == InitModel(ContractOccupancies) /\ [][EvaluateCoreModel]_vars

(***************************************************************************)
(* _seasonality_weights as a function of its inputs                        *)
(***************************************************************************)
\* amplitudes are tried every 0.05 / AmpRefine from 0 to 0.6
AmpRefine == 1

Amplitudes == {Q(k, 20 * AmpRefine) : k \in 0..(12 * AmpRefine)}

InitSeason ==
    /\ profile = TRUE
    /\ bp_zone_ui = None
    /\ bp_company = None
    /\ csv = [france |-> Missing, europe |-> Missing]
    /\ status = "init"
    /\ \E p \in 1..12 : \E amp \in Amplitudes :
           InitWidgets([DefaultWidgets EXCEPT !.peak_month = p,
                                              !.seasonality_amp = amp])
    /\ hotel_rev_year_eur = Unset
    /\ InitOutputs

\* line 305 of the script on the inputs drawn
EvaluateWeights ==
    /\ status = "init"
    /\ weights' = _seasonality_weights(peak_month, seasonality_amp)
    /\ status' = "weights"
    /\ UNCHANGED <<sessionVars, selectionVars, widgetVars, pointVars, df_month,
                   df_year>>

SpecSeason == InitSeason /\ [][EvaluateWeights]_vars

(***************************************************************************)
(* Properties of the seasonality weights (under SpecSeason)                *)
(***************************************************************************)
Months == 1..12

\* the month six months after peak, in 1..12
TroughMonth(peak) == ((peak - 1 + 6) % 12) + 1

Lt(x, y) == Gt(y, x)

\* C1: for every peak month 1..12 and every amplitude of [0, 0.6],
\* _seasonality_weights returns exactly 12 weights, each strictly positive,
\* and their sum is 1.
C1_WeightsPositiveSumToOne ==
    status = "weights" =>
        /\ Len(weights) = 12
        /\ \A m \in Months : IsNum(weights[m]) /\ Sign(weights[m]) = 1
        /\ SumSeq(weights) = One

\* the weights of the largest amplitude with the peak in December
C1_Witness ==
    /\ status = "weights"
    /\ peak_month = 12
    /\ seasonality_amp = Q(60, 100)
    /\ weights[12] = Q(2, 15)
    /\ weights[6] = Q(1, 30)

\* C8 as stated: for every peak month and every amplitude of [0, 0.6] the
\* peak month's weight is strictly greater than every other month's, and the
\* weight of the month six months later strictly smaller than every other.
C8_StrictSinglePeak ==
    status = "weights" =>
        /\ \A m \in Months \ {peak_month} :
               Gt(weights[peak_month], weights[m])
        /\ \A m \in Months \ {TroughMonth(peak_month)} :
               Lt(weights[TroughMonth(peak_month)], weights[m])

\* C8 amended: the strict single peak and trough hold for every amplitude
\* of (0, 0.6]; at amplitude 0 the twelve weights are all equal to 1/12.
C8_SinglePeakWhenAmplitudePositive ==
    status = "weights" =>
        /\ Gt(seasonality_amp, Zero) =>
               /\ \A m \in Months \ {peak_month} :
                      Gt(weights[peak_month], weights[m])
               /\ \A m \in Months \ {TroughMonth(peak_month)} :
                      Lt(weights[TroughMonth(peak_month)], weights[m])
        /\ seasonality_amp = Zero =>
               \A m \in Months : weights[m] = Q(1, 12)

\* the smallest positive amplitude, peak in June and trough in December
C8_Witness ==
    /\ status = "weights"
    /\ seasonality_amp = Q(5, 100)
    /\ peak_month = 6
    /\ TroughMonth(peak_month) = 12
    /\ Gt(weights[6], weights[5])
    /\ Lt(weights[12], weights[1])

(***************************************************************************)
(* Properties of the core model and of the tables (under SpecModel)        *)
(***************************************************************************)
Column(df, f) == [i \in 1..Len(df) |-> df[i][f]]

MonthlyFields ==
    {"HotelRevenue", "RoomNightsSold", "Stays", "Policies",
     "GrossInsuranceRevenue", "Claims", "NetInsuranceRevenue"}

\* the annual point estimate of a field of the monthly table
Annual(f) ==
    CASE f = "HotelRevenue" -> hotel_rev_year_eur
      [] f = "RoomNightsSold" -> room_nights_sold
      [] f = "Stays" -> stays
      [] f = "Policies" -> policies
      [] f = "GrossInsuranceRevenue" -> gross_ins_rev
      [] f = "Claims" -> claims
      [] f = "NetInsuranceRevenue" -> net_ins_rev

\* C2: for every in-range input the 12 rows of the Year-1 monthly table sum,
\* field by field, to the annual point estimate, each row being the annual
\* value times the month's weight.
C2_MonthlyRoundTrip ==
    status = "rendered" =>
        /\ Len(df_month) = 12
        /\ \A f \in MonthlyFields :
               /\ \A m \in Months : df_month[m][f] = Mul(Annual(f), weights[m])
               /\ SumSeq(Column(df_month, f)) = Annual(f)

\* a loss-making year spread over a strongly seasonal curve
C2_Witness ==
    /\ status = "rendered"
    /\ seasonality_amp = Q(60, 100)
    /\ Sign(net_ins_rev) = -1
    /\ stays # room_nights_sold
    /\ df_month[7].NetInsuranceRevenue # df_month[1].NetInsuranceRevenue

\* HotelRevenue[y] / baseRevenue, where the base revenue is positive
Ratio(y) == Div(df_year[y].HotelRevenue, hotel_rev_year_eur)

\* C3: for every horizon, growth and year y of the horizon,
\* HotelRevenue[y] = baseRevenue * (1 + growth)^(y - 1), and RoomNightsSold[y]
\* and Stays[y] are the point estimate's values times HotelRevenue[y] /
\* baseRevenue (a ratio that exists when baseRevenue is positive).
C3_AnnualGrowth ==
    status = "rendered" =>
        /\ Len(df_year) = horizon_years
        /\ \A y \in 1..horizon_years :
               /\ df_year[y].Year = y
               /\ df_year[y].HotelRevenue =
                      Mul(hotel_rev_year_eur, Pow(Add(One, growth), y - 1))
               /\ Gt(hotel_rev_year_eur, Zero) =>
                      /\ df_year[y].RoomNightsSold = Mul(room_nights_sold, Ratio(y))
                      /\ df_year[y].Stays = Mul(stays, Ratio(y))

\* five years of a shrinking revenue
C3_Witness ==
    /\ status = "rendered"
    /\ horizon_years = 5
    /\ growth = Q(-20, 100)
    /\ hotel_rev_year_eur = Q(50000000, 1)
    /\ df_year[5].HotelRevenue = Q(20480000, 1)
    /\ Lt(df_year[5].Stays, stays)

\* C4: in every year of the annual table the insurance fields are derived
\* from that year's Stays by the insurance formulas, and (the base revenue
\* being positive) each equals the point estimate's value of the field
\* times HotelRevenue[y] / baseRevenue.
C4_ReinvocationEquivalence ==
    status = "rendered" =>
        \A y \in 1..horizon_years :
            /\ df_year[y].Policies = Mul(df_year[y].Stays, take_rate)
            /\ df_year[y].GrossInsuranceRevenue =
                   Mul(df_year[y].Policies, insurance_price)
            /\ df_year[y].Claims =
                   Mul(Mul(df_year[y].Policies, claim_rate), avg_claim_cost)
            /\ df_year[y].NetInsuranceRevenue =
                   Sub(df_year[y].GrossInsuranceRevenue, df_year[y].Claims)
            /\ Gt(hotel_rev_year_eur, Zero) =>
                   /\ df_year[y].Policies = Mul(policies, Ratio(y))
                   /\ df_year[y].GrossInsuranceRevenue = Mul(gross_ins_rev, Ratio(y))
                   /\ df_year[y].Claims = Mul(claims, Ratio(y))
                   /\ df_year[y].NetInsuranceRevenue = Mul(net_ins_rev, Ratio(y))

\* three years at 5% with policies sold and claims paid
C4_Witness ==
    /\ status = "rendered"
    /\ horizon_years = 3
    /\ growth = Q(5, 100)
    /\ Gt(hotel_rev_year_eur, Zero)
    /\ Gt(policies, Zero)
    /\ Gt(claims, Zero)
    /\ df_year[3].Policies = Mul(policies, Q(441, 400))

\* C5: netInsuranceRevenue = grossInsuranceRevenue - claims in the point
\* estimate, in each of the 12 monthly rows and in every annual row, also
\* when the claims exceed the gross revenue.
C5_NetIsGrossMinusClaims ==
    status = "rendered" =>
        /\ net_ins_rev = Sub(gross_ins_rev, claims)
        /\ Gt(claims, gross_ins_rev) => Sign(net_ins_rev) = -1
        /\ \A m \in Months :
               df_month[m].NetInsuranceRevenue =
                   Sub(df_month[m].GrossInsuranceRevenue, df_month[m].Claims)
        /\ \A y \in 1..horizon_years :
               df_year[y].NetInsuranceRevenue =
                   Sub(df_year[y].GrossInsuranceRevenue, df_year[y].Claims)

\* claims above the gross revenue, over five years
C5_Witness ==
    /\ status = "rendered"
    /\ Gt(claims, gross_ins_rev)
    /\ Gt(gross_ins_rev, Zero)
    /\ horizon_years = 5
    /\ Sign(df_month[1].NetInsuranceRevenue) = -1
    /\ Sign(df_year[5].NetInsuranceRevenue) = -1

\* C6: the loss ratio is the undefined sentinel (nan, shown as a dash) iff
\* the gross insurance revenue is 0; it is then not reported as zero and
\* nothing is raised; otherwise it is claims / grossInsuranceRevenue.
C6_LossRatioUndefinedIffNoGross ==
    status # "init" =>
        /\ status = "rendered"
        /\ IsNaN(loss_ratio) <=> gross_ins_rev = Zero
        /\ gross_ins_rev = Zero =>
               loss_ratio # Zero /\ loss_ratio_text = [kind |-> "dash", tenths |-> 0]
        /\ gross_ins_rev # Zero =>
               /\ loss_ratio = Div(claims, gross_ins_rev)
               /\ loss_ratio_text.kind = "pct"

\* stays sold at a price, but no policy taken
C6_Witness ==
    /\ status = "rendered"
    /\ Gt(stays, Zero)
    /\ Gt(insurance_price, Zero)
    /\ take_rate = Zero
    /\ gross_ins_rev = Zero
    /\ IsNaN(loss_ratio)

\* C9 as stated: the Year-1 row of the annual table agrees with the annual
\* point estimate of the KPI header, also for a company of revenue 0.
C9_YearOneIsPointEstimate ==
    status = "rendered" =>
        /\ df_year[1].RoomNightsSold = room_nights_sold
        /\ df_year[1].Stays = stays
        /\ df_year[1].Policies = policies
        /\ df_year[1].GrossInsuranceRevenue = gross_ins_rev
        /\ df_year[1].Claims = claims
        /\ df_year[1].NetInsuranceRevenue = net_ins_rev

(***************************************************************************)
(* The zero-denominator guard (under SpecGuard)                            *)
(***************************************************************************)
\* C7: with an occupancy of 0 the model raises nothing and yields
\* roomNightsSold = 0, an undefined ADR, stays = 0, policies = gross revenue
\* = claims = net revenue = 0 and an undefined loss ratio, whatever the
\* other inputs.
C7_ZeroOccupancyGuard ==
    (status # "init" /\ occupancy = Zero) =>
        /\ status = "rendered"
        /\ room_nights_sold = Zero
        /\ IsNaN(adr)
        /\ stays = Zero
        /\ policies = Zero
        /\ gross_ins_rev = Zero
        /\ claims = Zero
        /\ net_ins_rev = Zero
        /\ IsNaN(loss_ratio)
        /\ loss_ratio_text.kind = "dash"

\* the model evaluated at occupancy 0 for a company with a revenue
C7_Witness ==
    /\ status = "rendered"
    /\ occupancy = Zero
    /\ Gt(hotel_rev_year_eur, Zero)
    /\ Gt(take_rate, Zero)
    /\ IsNaN(adr)

(***************************************************************************)
(* The company selection across page runs (under Spec)                     *)
(***************************************************************************)
\* the company list of the scope the page is showing
ScopeCompanies ==
    UniqueNames(CleanSort(LoadPanoramaFor(csv, ZonesInScope(zone_ui))))

\* C10: after any sequence of page runs with zone changes and company
\* selections, the company whose revenue feeds the model is a member of the
\* current scope's company list; a remembered bp_company absent from the
\* list is replaced by the list's first company before the selection; the
\* 'Selected company not found' state is never reached, the lookup of the
\* default never fails, and the model is computed for companies of the
\* scope only.
C10_SelectedCompanyInScope ==
    /\ status \notin {"not_found", "exception"}
    /\ status = "rendered" =>
           /\ companies = ScopeCompanies
           /\ InList(company, companies)
           /\ bp_company = company
           /\ InList(default_company, companies)
           /\ ~InList(remembered_company, companies) =>
                  default_company = companies[1]
           /\ \E i \in 1..Len(CleanSort(LoadPanoramaFor(csv, ZonesInScope(zone_ui)))) :
                  LET r == CleanSort(LoadPanoramaFor(csv, ZonesInScope(zone_ui)))[i]
                  IN  /\ r.Name = company
                      /\ hotel_rev_year_eur = Mul(r.Revenue_M, Q(1000000, 1))

\* a zone change has left the remembered company outside the new list, and
\* the run fell back to the first company of the list
C10_Witness ==
    /\ status = "rendered"
    /\ remembered_company # None
    /\ ~InList(remembered_company, companies)
    /\ default_company = companies[1]
    /\ company = companies[1]

====
